---- MODULE Spec2Model ----
(***************************************************************************)
(* Model of the bidirectional sync engine of paintress-obsidian-sync:      *)
(* SyncController (sync, createSyncAction, applySyncAction,                *)
(* handleConflict), ConflictResolver and the host store LocalFileSystem.   *)
(*                                                                         *)
(* Two specifications are defined over the same variables:                 *)
(*   SpecPlan  createSyncAction as a pure function, applied to snapshots   *)
(*             and a watermark drawn from bounded sets;                    *)
(*   Spec      whole sync passes, one step per awaited store call, every   *)
(*             store call free to fail.                                    *)
(***************************************************************************)
EXTENDS Integers, Sequences, FiniteSets, TLC

VARIABLES
    hostVault,       \* LocalFileSystem: the files on disk, path -> stat and content
    hostHistory,     \* LocalFileHistory: path -> deletedAt of the deletion entry, 0 = no entry
    remoteStore,     \* the remote FileSystem: path -> record
    settings,        \* SettingsController.settings
    last_synced_at,  \* SyncController.last_synced_at
    now,             \* `now` of the running pass
    hostFiles,       \* snapshot returned by host.getFiles()
    remoteFiles,     \* filteredRemoteFiles
    actions,         \* the list returned by createSyncAction
    idx,             \* position of the for-loop of sync() in `actions`
    cur,             \* the action applySyncAction is working on (after re-dispatch)
    ops,             \* store calls applySyncAction still has to issue for `cur`
    buf,             \* contents read by the running applySyncAction
    calls,           \* store calls issued by the running pass, in order
    pc,              \* position of sync()
    error,           \* what sync() threw, "none" if nothing
    classified,      \* what getResolutionStrategy returned last, "none" if not called
    external         \* number of changes other writers have made to the host's files

vars == <<hostVault, hostHistory, remoteStore, settings, last_synced_at, now,
          hostFiles, remoteFiles, actions, idx, cur, ops, buf, calls, pc, error,
          classified, external>>

storeVars == <<hostVault, hostHistory, remoteStore>>

(***************************************************************************)
(* Bounds                                                                  *)
(***************************************************************************)
\* SpecPlan: updatedAt, deletedAt and the watermark are drawn from 0/1..MaxTime,
\* createdAt of a live record from 1..MaxCreated
MaxTime == 3
MaxCreated == 2
\* Spec: the timestamps of the initial stores, the initial watermark and the
\* clock readings (Date.now()) are drawn from 0/1..MaxStamp
MaxStamp == 2
\* SpecResolve: the number of configured resolution rules
MaxRules == 2
\* SpecExt: the number of changes other writers make to the host's files
MaxExternal == 2

Times == 1..MaxTime
CreatedTimes == 1..MaxCreated
Watermarks == 0..MaxTime
Stamps == 1..MaxStamp

\* the files the Vault has loaded (vault.getAllLoadedFiles()), in the order the
\* stores enumerate them
PathSeq == <<"a.md", "b.bin">>
Paths == {PathSeq[i] : i \in 1..Len(PathSeq)}

\* the files of the configuration folder (adapter.list('.obsidian')): they are on
\* disk, but the Vault does not load them
InternalPathSeq == <<".obsidian/app.json">>
InternalPaths == {InternalPathSeq[i] : i \in 1..Len(InternalPathSeq)}

AllPathSeq == PathSeq \o InternalPathSeq
AllPaths == Paths \cup InternalPaths

\* null / undefined
Null == [null |-> TRUE]

(***************************************************************************)
(* FileMetadata                                                            *)
(***************************************************************************)
FileMetadata(path, createdAt, updatedAt, deletedAt, deleted) ==
    [path |-> path, createdAt |-> createdAt, updatedAt |-> updatedAt,
     deletedAt |-> deletedAt, deleted |-> deleted]

createAction(hostFile, remoteFile, action) ==
    [hostFile |-> hostFile, remoteFile |-> remoteFile, action |-> action]

\* files.find((file) => file.path === path): the first match, undefined if none
getFile(files, path) ==
    IF \E i \in 1..Len(files) : files[i].path = path
    THEN files[CHOOSE i \in 1..Len(files) :
                  /\ files[i].path = path
                  /\ \A j \in 1..(i - 1) : files[j].path # path]
    ELSE Null

(***************************************************************************)
(* createSyncAction: four passes over an insert-if-absent map keyed by     *)
(* path.  The map is a sequence of <<key, value>> entries in insertion     *)
(* order, which is the iteration order of a JavaScript Map.                *)
(***************************************************************************)
has(objMap, key) == \E i \in 1..Len(objMap) : objMap[i].key = key

\* mutant of set: a later value replaces the entry of a key the map already holds
set_Overwrite(objMap, key, value) ==
    IF has(objMap, key)
    THEN [i \in 1..Len(objMap) |->
             IF objMap[i].key = key THEN [key |-> key, value |-> value] ELSE objMap[i]]
    ELSE Append(objMap, [key |-> key, value |-> value])

\* const set = (key, value) => { if (objMap.has(key)) return; objMap.set(key, value) }
set(objMap, key, value) ==
    IF has(objMap, key) THEN objMap
    ELSE Append(objMap, [key |-> key, value |-> value])

\* mutant of applyRemoteDeletion: the lone remote tombstone is pruned
applyRemoteDeletion_PruneLone(objMap, hFiles, remoteDeletedFile) ==
    LET hostFile == getFile(hFiles, remoteDeletedFile.path) IN
    IF hostFile # Null
    THEN IF hostFile.deleted
         THEN set(objMap, hostFile.path, createAction(hostFile, remoteDeletedFile, "prune"))
         ELSE IF hostFile.createdAt < remoteDeletedFile.deletedAt
              THEN set(objMap, hostFile.path, createAction(hostFile, remoteDeletedFile, "remove"))
              ELSE set(objMap, hostFile.path, createAction(hostFile, remoteDeletedFile, "push"))
    ELSE set(objMap, remoteDeletedFile.path, createAction(Null, remoteDeletedFile, "prune"))

\* mutant of applyRemoteDeletion: a host file created at the deletion is removed
applyRemoteDeletion_CreatedAtOrBefore(objMap, hFiles, remoteDeletedFile) ==
    LET hostFile == getFile(hFiles, remoteDeletedFile.path) IN
    IF hostFile # Null
    THEN IF hostFile.deleted
         THEN set(objMap, hostFile.path, createAction(hostFile, remoteDeletedFile, "prune"))
         ELSE IF hostFile.createdAt <= remoteDeletedFile.deletedAt
              THEN set(objMap, hostFile.path, createAction(hostFile, remoteDeletedFile, "remove"))
              ELSE set(objMap, hostFile.path, createAction(hostFile, remoteDeletedFile, "push"))
    ELSE objMap

\* body of the loop over remoteDeletedFiles
applyRemoteDeletion(objMap, hFiles, remoteDeletedFile) ==
    LET hostFile == getFile(hFiles, remoteDeletedFile.path) IN
    IF hostFile # Null
    THEN IF hostFile.deleted
         THEN set(objMap, hostFile.path, createAction(hostFile, remoteDeletedFile, "prune"))
         ELSE IF hostFile.createdAt < remoteDeletedFile.deletedAt
              THEN set(objMap, hostFile.path, createAction(hostFile, remoteDeletedFile, "remove"))
              ELSE set(objMap, hostFile.path, createAction(hostFile, remoteDeletedFile, "push"))
    ELSE objMap

\* mutant of applyHostDeletion: a remote file created at the deletion is removed
applyHostDeletion_CreatedAtOrBefore(objMap, rFiles, hostDeletedFile) ==
    LET remoteFile == getFile(rFiles, hostDeletedFile.path) IN
    IF remoteFile # Null
    THEN IF remoteFile.deleted
         THEN objMap
         ELSE IF remoteFile.createdAt <= hostDeletedFile.deletedAt
              THEN set(objMap, remoteFile.path, createAction(hostDeletedFile, remoteFile, "remove"))
              ELSE set(objMap, hostDeletedFile.path, createAction(hostDeletedFile, remoteFile, "pull"))
    ELSE set(objMap, hostDeletedFile.path, createAction(hostDeletedFile, Null, "prune"))

\* mutant of applyHostDeletion: a remote file created at or after the deletion is
\* answered with push
applyHostDeletion_PushTombstone(objMap, rFiles, hostDeletedFile) ==
    LET remoteFile == getFile(rFiles, hostDeletedFile.path) IN
    IF remoteFile # Null
    THEN IF remoteFile.deleted THEN objMap
         ELSE IF remoteFile.createdAt < hostDeletedFile.deletedAt
              THEN set(objMap, remoteFile.path, createAction(hostDeletedFile, remoteFile, "remove"))
              ELSE set(objMap, hostDeletedFile.path, createAction(hostDeletedFile, remoteFile, "push"))
    ELSE set(objMap, hostDeletedFile.path, createAction(hostDeletedFile, Null, "prune"))

\* body of the loop over hostDeletedFiles
applyHostDeletion(objMap, rFiles, hostDeletedFile) ==
    LET remoteFile == getFile(rFiles, hostDeletedFile.path) IN
    IF remoteFile # Null
    THEN IF remoteFile.deleted
         THEN objMap
         ELSE IF remoteFile.createdAt < hostDeletedFile.deletedAt
              THEN set(objMap, remoteFile.path, createAction(hostDeletedFile, remoteFile, "remove"))
              ELSE set(objMap, hostDeletedFile.path, createAction(hostDeletedFile, remoteFile, "pull"))
    ELSE set(objMap, hostDeletedFile.path, createAction(hostDeletedFile, Null, "prune"))

\* mutant of applyHostModified: the watermark is checked before the push rule
applyHostModified_WatermarkFirst(objMap, rFiles, hostModifiedFile, lastSyncedAt) ==
    LET remoteFile == getFile(rFiles, hostModifiedFile.path) IN
    IF remoteFile # Null /\ remoteFile.updatedAt > lastSyncedAt
    THEN set(objMap, hostModifiedFile.path, createAction(hostModifiedFile, remoteFile, "conflict"))
    ELSE IF remoteFile = Null \/ remoteFile.updatedAt < hostModifiedFile.updatedAt
         THEN set(objMap, hostModifiedFile.path, createAction(hostModifiedFile, remoteFile, "push"))
         ELSE objMap

\* mutant of applyHostModified: the loop plans push only and leaves conflicts to
\* the loop over remoteModifiedFiles
applyHostModified_PushOnly(objMap, rFiles, hostModifiedFile, lastSyncedAt) ==
    LET remoteFile == getFile(rFiles, hostModifiedFile.path) IN
    IF remoteFile = Null \/ remoteFile.updatedAt < hostModifiedFile.updatedAt
    THEN set(objMap, hostModifiedFile.path, createAction(hostModifiedFile, remoteFile, "push"))
    ELSE objMap

\* body of the loop over hostModifiedFiles
applyHostModified(objMap, rFiles, hostModifiedFile, lastSyncedAt) ==
    LET remoteFile == getFile(rFiles, hostModifiedFile.path) IN
    IF remoteFile = Null \/ remoteFile.updatedAt < hostModifiedFile.updatedAt
    THEN set(objMap, hostModifiedFile.path, createAction(hostModifiedFile, remoteFile, "push"))
    ELSE IF remoteFile.updatedAt > lastSyncedAt
         THEN set(objMap, hostModifiedFile.path, createAction(hostModifiedFile, remoteFile, "conflict"))
         ELSE objMap

\* mutant of applyRemoteModified: equal timestamps pull
applyRemoteModified_PullOnTie(objMap, hFiles, remoteModifiedFile, lastSyncedAt) ==
    LET hostFile == getFile(hFiles, remoteModifiedFile.path) IN
    IF hostFile = Null \/ hostFile.updatedAt <= remoteModifiedFile.updatedAt
    THEN set(objMap, remoteModifiedFile.path, createAction(hostFile, remoteModifiedFile, "pull"))
    ELSE IF hostFile.updatedAt > lastSyncedAt
         THEN set(objMap, remoteModifiedFile.path, createAction(hostFile, remoteModifiedFile, "conflict"))
         ELSE objMap

\* body of the loop over remoteModifiedFiles
applyRemoteModified(objMap, hFiles, remoteModifiedFile, lastSyncedAt) ==
    LET hostFile == getFile(hFiles, remoteModifiedFile.path) IN
    IF hostFile = Null \/ hostFile.updatedAt < remoteModifiedFile.updatedAt
    THEN set(objMap, remoteModifiedFile.path, createAction(hostFile, remoteModifiedFile, "pull"))
    ELSE IF hostFile.updatedAt > lastSyncedAt
         THEN set(objMap, remoteModifiedFile.path, createAction(hostFile, remoteModifiedFile, "conflict"))
         ELSE objMap

isDeleted(file) == file.deleted
isModified(file) == ~file.deleted

RECURSIVE remoteDeletions(_, _, _, _)
remoteDeletions(objMap, hFiles, remoteDeletedFiles, i) ==
    IF i > Len(remoteDeletedFiles) THEN objMap
    ELSE remoteDeletions(applyRemoteDeletion(objMap, hFiles, remoteDeletedFiles[i]),
                         hFiles, remoteDeletedFiles, i + 1)

RECURSIVE hostDeletions(_, _, _, _)
hostDeletions(objMap, rFiles, hostDeletedFiles, i) ==
    IF i > Len(hostDeletedFiles) THEN objMap
    ELSE hostDeletions(applyHostDeletion(objMap, rFiles, hostDeletedFiles[i]),
                       rFiles, hostDeletedFiles, i + 1)

RECURSIVE hostModifications(_, _, _, _, _)
hostModifications(objMap, rFiles, hostModifiedFiles, lastSyncedAt, i) ==
    IF i > Len(hostModifiedFiles) THEN objMap
    ELSE hostModifications(applyHostModified(objMap, rFiles, hostModifiedFiles[i], lastSyncedAt),
                           rFiles, hostModifiedFiles, lastSyncedAt, i + 1)

RECURSIVE remoteModifications(_, _, _, _, _)
remoteModifications(objMap, hFiles, remoteModifiedFiles, lastSyncedAt, i) ==
    IF i > Len(remoteModifiedFiles) THEN objMap
    ELSE remoteModifications(applyRemoteModified(objMap, hFiles, remoteModifiedFiles[i], lastSyncedAt),
                             hFiles, remoteModifiedFiles, lastSyncedAt, i + 1)

\* the map after each of the four passes
planPass1(hFiles, rFiles) ==
    remoteDeletions(<<>>, hFiles, SelectSeq(rFiles, isDeleted), 1)
planPass2(hFiles, rFiles) ==
    hostDeletions(planPass1(hFiles, rFiles), rFiles, SelectSeq(hFiles, isDeleted), 1)
planPass3(hFiles, rFiles, lastSyncedAt) ==
    hostModifications(planPass2(hFiles, rFiles), rFiles, SelectSeq(hFiles, isModified), lastSyncedAt, 1)
planPass4(hFiles, rFiles, lastSyncedAt) ==
    remoteModifications(planPass3(hFiles, rFiles, lastSyncedAt), hFiles,
                        SelectSeq(rFiles, isModified), lastSyncedAt, 1)

\* Array.from(objMap.values())
createSyncAction(hFiles, rFiles, lastSyncedAt) ==
    LET objMap == planPass4(hFiles, rFiles, lastSyncedAt) IN
    [i \in 1..Len(objMap) |-> objMap[i].value]

(***************************************************************************)
(* Strings.  A string the code splits, trims or matches is the sequence of *)
(* its characters; Chars gives it for the strings the model configures.    *)
(***************************************************************************)
Chars(s) ==
    CASE s = "a.md" -> <<"a", ".", "m", "d">>
      [] s = "b.bin" -> <<"b", ".", "b", "i", "n">>
      [] s = ".obsidian/app.json" -> <<".", "o", "b", "s", "i", "d", "i", "a", "n", "/", "a", "p", "p", ".", "j", "s", "o", "n">>
      [] s = "env" -> <<"e", "n", "v">>
      [] s = "d/e.bin" -> <<"d", "/", "e", ".", "b", "i", "n">>
      [] s = "notes.txt.bak" -> <<"n", "o", "t", "e", "s", ".", "t", "x", "t", ".", "b", "a", "k">>
      [] s = "" -> <<>>
      [] s = "*.tmp\n *.bin" -> <<"*", ".", "t", "m", "p", "\n", " ", "*", ".", "b", "i", "n">>
      [] s = "*.txt, *.bin" -> <<"*", ".", "t", "x", "t", ",", " ", "*", ".", "b", "i", "n">>
      [] s = "b.*" -> <<"b", ".", "*">>
      [] s = "**" -> <<"*", "*">>
      [] s = " env ,d/*" -> <<" ", "e", "n", "v", " ", ",", "d", "/", "*">>
      [] s = "*.md" -> <<"*", ".", "m", "d">>

\* String.prototype.split(sep) for a one-character separator
RECURSIVE splitFrom(_, _, _, _)
splitFrom(chars, sep, i, piece) ==
    IF i > Len(chars) THEN <<piece>>
    ELSE IF chars[i] = sep THEN <<piece>> \o splitFrom(chars, sep, i + 1, <<>>)
    ELSE splitFrom(chars, sep, i + 1, Append(piece, chars[i]))

split(chars, sep) == splitFrom(chars, sep, 1, <<>>)

Whitespace == {" ", "\n", "\t"}

\* String.prototype.trim()
RECURSIVE trimStart(_)
trimStart(chars) ==
    IF chars # <<>> /\ Head(chars) \in Whitespace THEN trimStart(Tail(chars)) ELSE chars

RECURSIVE trimEnd(_)
trimEnd(chars) ==
    IF chars # <<>> /\ chars[Len(chars)] \in Whitespace
    THEN trimEnd(SubSeq(chars, 1, Len(chars) - 1)) ELSE chars

trim(chars) == trimEnd(trimStart(chars))

\* Array.prototype.flatMap for a sequence of sequences
RECURSIVE flatten(_)
flatten(seqs) == IF seqs = <<>> THEN <<>> ELSE Head(seqs) \o flatten(Tail(seqs))

(***************************************************************************)
(* minimatch for patterns made of literal characters, `*` and `**`: the    *)
(* path and the pattern are matched segment by segment; `*` stands for any *)
(* run of characters of one segment, a `**` segment for any number of      *)
(* segments; a segment starting with a dot is matched by a pattern segment *)
(* starting with a dot only, unless the option `dot` is set.               *)
(***************************************************************************)
RECURSIVE matchChars(_, _)
matchChars(segment, pattern) ==
    IF pattern = <<>> THEN segment = <<>>
    ELSE IF Head(pattern) = "*"
         THEN \/ matchChars(segment, Tail(pattern))
              \/ segment # <<>> /\ matchChars(Tail(segment), pattern)
         ELSE /\ segment # <<>>
              /\ Head(segment) = Head(pattern)
              /\ matchChars(Tail(segment), Tail(pattern))

isDotSegment(segment) == segment # <<>> /\ Head(segment) = "."

matchSegment(segment, pattern, dot) ==
    /\ segment # <<>>
    /\ isDotSegment(segment) /\ ~dot => isDotSegment(pattern)
    /\ matchChars(segment, pattern)

GlobStar == <<"*", "*">>

RECURSIVE matchSegments(_, _, _)
matchSegments(segments, patterns, dot) ==
    IF patterns = <<>> THEN segments = <<>>
    ELSE IF Head(patterns) = GlobStar
         THEN \/ matchSegments(segments, Tail(patterns), dot)
              \/ /\ segments # <<>>
                 /\ dot \/ ~isDotSegment(Head(segments))
                 /\ matchSegments(Tail(segments), patterns, dot)
         ELSE /\ segments # <<>>
              /\ matchSegment(Head(segments), Head(patterns), dot)
              /\ matchSegments(Tail(segments), Tail(patterns), dot)

\* minimatch(path, pattern, { dot })
minimatch(path, pattern, dot) ==
    IF pattern = <<>> THEN path = <<>>
    ELSE matchSegments(split(path, "/"), split(pattern, "/"), dot)

(***************************************************************************)
(* Settings and the ConflictResolver                                       *)
(***************************************************************************)
\* excludePatterns.split('\n').flatMap((p) => p.trim().split(',')).flatMap((p) => p.trim())
splitExcludeGlobs(excludeGlobs) ==
    LET rows == split(Chars(excludeGlobs), "\n")
        cells == flatten([i \in 1..Len(rows) |-> split(trim(rows[i]), ",")])
    IN  [i \in 1..Len(cells) |-> trim(cells[i])]

isFileExcluded(filePath, excludePatterns) ==
    \E i \in 1..Len(excludePatterns) :
        /\ trim(excludePatterns[i]) # <<>>
        /\ minimatch(Chars(filePath), excludePatterns[i], TRUE)

\* file.path.split('.').pop()
getExtension(file) ==
    LET parts == split(Chars(file.path), ".") IN parts[Len(parts)]

TextExtensions ==
    {<<"m", "d">>,
     <<"t", "x", "t">>,
     <<"j", "s", "o", "n">>,
     <<"y", "a", "m", "l">>,
     <<"y", "m", "l">>,
     <<"t", "o", "m", "l">>,
     <<"i", "n", "i">>,
     <<"c", "o", "n", "f">>,
     <<"c", "f", "g">>,
     <<"c", "o", "n", "f", "i", "g">>,
     <<"p", "r", "o", "p", "e", "r", "t", "i", "e", "s">>,
     <<"e", "n", "v">>}

isTextBasedFile(file) == getExtension(file) \in TextExtensions

\* resolution_strategies.flatMap: one {glob, strategy} pair per comma-separated,
\* trimmed pattern of each rule, in declared order
RECURSIVE flattenRules(_)
flattenRules(rules) ==
    IF rules = <<>> THEN <<>>
    ELSE LET globs == split(Chars(Head(rules).glob), ",") IN
         [i \in 1..Len(globs) |->
             [glob |-> trim(globs[i]), strategy |-> Head(rules).strategy]]
         \o flattenRules(Tail(rules))

\* mutant of getResolutionStrategy: a matching rule wins over the text allow-list
getResolutionStrategy_RulesFirst(cfg, hostFile, remoteFile) ==
    LET flat == flattenRules(cfg.resolution_strategies)
        hits == {i \in 1..Len(flat) : minimatch(Chars(hostFile.path), flat[i].glob, FALSE)}
        first == CHOOSE i \in hits : \A j \in hits : i <= j
    IN  IF hits # {} /\ flat[first].strategy # ""
        THEN flat[first].strategy
        ELSE IF isTextBasedFile(hostFile) THEN "resolve"
        ELSE cfg.fallback_conflict_resolution_strategy

getResolutionStrategy(cfg, hostFile, remoteFile) ==
    LET flat == flattenRules(cfg.resolution_strategies)
        hits == {i \in 1..Len(flat) : minimatch(Chars(hostFile.path), flat[i].glob, FALSE)}
        first == CHOOSE i \in hits : \A j \in hits : i <= j
        \* matchedStrategy?.strategy || fallback_conflict_resolution_strategy
        defaultStrategy ==
            IF hits # {} /\ flat[first].strategy # ""
            THEN flat[first].strategy
            ELSE cfg.fallback_conflict_resolution_strategy
    IN  IF isTextBasedFile(hostFile) THEN "resolve" ELSE defaultStrategy

\* reconcile(original, left, right).text of reconcile-text on whole contents: the
\* side that differs from the original wins; two different edits are merged
reconcile(original, left, right) ==
    IF left = original THEN right
    ELSE IF right = original THEN left
    ELSE IF left = right THEN left
    ELSE "merged"

resolve(hostFile, remoteFile, hostFileContent, remoteFileContent) ==
    LET oldFile == IF hostFile.updatedAt < remoteFile.updatedAt
                   THEN hostFileContent ELSE remoteFileContent
        newFile == IF hostFile.updatedAt < remoteFile.updatedAt
                   THEN remoteFileContent ELSE hostFileContent
    IN  reconcile(oldFile, oldFile, newFile)

(***************************************************************************)
(* The host store, LocalFileSystem                                         *)
(***************************************************************************)
NoFile == [exists |-> FALSE, ctime |-> 0, mtime |-> 0, content |-> ""]

\* vault.getAbstractFileByPath(path) is a TFile for a loaded file only
getFileStats(vault, path) ==
    IF path \in Paths /\ vault[path].exists
    THEN [mtime |-> vault[path].mtime, ctime |-> vault[path].ctime]
    ELSE [mtime |-> 0, ctime |-> 0]

RECURSIVE walkFrom(_, _, _)
walkFrom(vault, excludePatterns, i) ==
    IF i > Len(PathSeq) THEN <<>>
    ELSE LET path == PathSeq[i] IN
         (IF vault[path].exists /\ ~isFileExcluded(path, excludePatterns)
          THEN <<FileMetadata(path, vault[path].ctime, vault[path].mtime,
                              vault[path].mtime, FALSE)>>
          ELSE <<>>)
         \o walkFrom(vault, excludePatterns, i + 1)

walk(vault, excludeGlobs) == walkFrom(vault, splitExcludeGlobs(excludeGlobs), 1)

RECURSIVE walkInternalFrom(_, _, _)
walkInternalFrom(vault, excludePatterns, i) ==
    IF i > Len(InternalPathSeq) THEN <<>>
    ELSE LET file == InternalPathSeq[i] IN
         (IF vault[file].exists /\ ~isFileExcluded(file, excludePatterns)
          THEN <<FileMetadata(file, vault[file].ctime, vault[file].mtime,
                              vault[file].mtime, FALSE)>>
          ELSE <<>>)
         \o walkInternalFrom(vault, excludePatterns, i + 1)

walkInternalFiles(vault, excludeGlobs) ==
    walkInternalFrom(vault, splitExcludeGlobs(excludeGlobs), 1)

\* history.getAllDeletedFiles(): one {path, deletedAt} entry per recorded deletion
RECURSIVE deletedFrom(_, _)
deletedFrom(history, i) ==
    IF i > Len(AllPathSeq) THEN <<>>
    ELSE (IF history[AllPathSeq[i]] # 0
          THEN <<[path |-> AllPathSeq[i], deletedAt |-> history[AllPathSeq[i]]]>>
          ELSE <<>>)
         \o deletedFrom(history, i + 1)

getAllDeletedFiles(history) == deletedFrom(history, 1)

\* LocalFileSystem.getFiles
hostGetFiles(vault, history, cfg) ==
    LET arr == walk(vault, cfg.exclude_globs)
        deletedFiles == getAllDeletedFiles(history)
        notInArr(file) == ~\E i \in 1..Len(arr) : arr[i].path = file.path
        kept == SelectSeq(deletedFiles, notInArr)
        filteredDeletedFiles ==
            [i \in 1..Len(kept) |->
                FileMetadata(kept[i].path, kept[i].deletedAt, kept[i].deletedAt,
                             kept[i].deletedAt, TRUE)]
    IN  IF ~cfg.sync_internal_files THEN arr \o filteredDeletedFiles
        ELSE arr \o filteredDeletedFiles \o walkInternalFiles(vault, cfg.exclude_globs)

\* the staleness check of update and remove
hostStale(vault, path, previousUpdatedAt) ==
    LET mtime == getFileStats(vault, path).mtime IN
    mtime # 0 /\ mtime # previousUpdatedAt

writeFile(vault, path, content, mtime, ctime) ==
    [vault EXCEPT ![path] =
        [exists |-> TRUE, ctime |-> ctime, mtime |-> mtime, content |-> content]]

\* LocalFileSystem.update past the staleness check
hostUpdate(vault, path, content, newUpdatedAt) ==
    LET ctime == getFileStats(vault, path).ctime IN
    writeFile(vault, path, content, newUpdatedAt,
              IF ctime # 0 THEN ctime ELSE newUpdatedAt)

\* vault.adapter.trashLocal / trashSystem: the file leaves the vault
trash(vault, path) == [vault EXCEPT ![path] = NoFile]

\* LocalFileHistory when a file of the store is deleted: the deletion is recorded
recordDeletion(history, vault, path, at) ==
    IF vault[path].exists THEN [history EXCEPT ![path] = at] ELSE history

\* LocalFileSystem.prune: history.removeEntry(path)
hostPrune(history, path) == [history EXCEPT ![path] = 0]

(***************************************************************************)
(* The remote store.  Its adapter is outside the sources at hand; it is    *)
(* modelled from the FileSystem contract the controller calls.             *)
(***************************************************************************)
NoRecord == [state |-> "none", createdAt |-> 0, updatedAt |-> 0, deletedAt |-> 0,
             content |-> ""]

RECURSIVE remoteFrom(_, _)
remoteFrom(store, i) ==
    IF i > Len(AllPathSeq) THEN <<>>
    ELSE LET path == AllPathSeq[i] IN
         (IF store[path].state # "none"
          THEN <<FileMetadata(path, store[path].createdAt, store[path].updatedAt,
                              store[path].deletedAt, store[path].state = "deleted")>>
          ELSE <<>>)
         \o remoteFrom(store, i + 1)

remoteGetFiles(store) == remoteFrom(store, 1)

remoteStale(store, path, previousUpdatedAt) ==
    store[path].updatedAt # 0 /\ store[path].updatedAt # previousUpdatedAt

remoteUpdate(store, path, content, newUpdatedAt) ==
    [store EXCEPT ![path] =
        [state |-> "live",
         createdAt |-> IF store[path].state = "live" THEN store[path].createdAt
                       ELSE newUpdatedAt,
         updatedAt |-> newUpdatedAt, deletedAt |-> 0, content |-> content]]

remoteRemove(store, path, at) ==
    [store EXCEPT ![path] =
        [state |-> "deleted", createdAt |-> at, updatedAt |-> at, deletedAt |-> at,
         content |-> ""]]

(***************************************************************************)
(* applySyncAction.  Each awaited store call is one step; `ops` holds the  *)
(* calls the running applySyncAction has still to issue.                   *)
(***************************************************************************)
\* mutant of applySyncAction: a prune action with a remote tombstone prunes it too
applySyncAction_PruneBoth(action) ==
    CASE action.action = "prune" ->
            (IF action.hostFile # Null THEN <<"host.prune">> ELSE <<>>)
            \o (IF action.remoteFile # Null THEN <<"remote.prune">> ELSE <<>>)
      [] action.action = "remove" ->
            (IF action.remoteFile # Null THEN <<"remote.remove">> ELSE <<>>)
            \o (IF action.hostFile # Null THEN <<"host.remove">> ELSE <<>>)
      [] action.action = "conflict" ->
            IF action.hostFile # Null /\ action.remoteFile # Null
            THEN <<"conflict.host.getFileContent", "conflict.remote.getFileContent">>
            ELSE <<>>
      [] action.action = "push" ->
            IF action.hostFile # Null
            THEN <<"host.getFileContent", "remote.update">> ELSE <<>>
      [] action.action = "pull" ->
            IF action.remoteFile # Null
            THEN <<"remote.getFileContent", "host.update">> ELSE <<>>
      [] OTHER -> <<>>

\* mutant of applySyncAction: a remove action deletes on the host first
applySyncAction_HostFirst(action) ==
    CASE action.action = "prune" ->
            IF action.hostFile # Null THEN <<"host.prune">> ELSE <<>>
      [] action.action = "remove" ->
            (IF action.hostFile # Null THEN <<"host.remove">> ELSE <<>>)
            \o (IF action.remoteFile # Null THEN <<"remote.remove">> ELSE <<>>)
      [] action.action = "conflict" ->
            IF action.hostFile # Null /\ action.remoteFile # Null
            THEN <<"conflict.host.getFileContent", "conflict.remote.getFileContent">>
            ELSE <<>>
      [] action.action = "push" ->
            IF action.hostFile # Null
            THEN <<"host.getFileContent", "remote.update">> ELSE <<>>
      [] action.action = "pull" ->
            IF action.remoteFile # Null
            THEN <<"remote.getFileContent", "host.update">> ELSE <<>>
      [] OTHER -> <<>>

\* the store calls of one action, in the order applySyncAction awaits them, up to
\* the point where a conflict is dispatched on its strategy
applySyncAction(action) ==
    CASE action.action = "prune" ->
            IF action.hostFile # Null THEN <<"host.prune">> ELSE <<>>
      [] action.action = "remove" ->
            (IF action.remoteFile # Null THEN <<"remote.remove">> ELSE <<>>)
            \o (IF action.hostFile # Null THEN <<"host.remove">> ELSE <<>>)
      [] action.action = "conflict" ->
            IF action.hostFile # Null /\ action.remoteFile # Null
            THEN <<"conflict.host.getFileContent", "conflict.remote.getFileContent">>
            ELSE <<>>
      [] action.action = "push" ->
            IF action.hostFile # Null
            THEN <<"host.getFileContent", "remote.update">> ELSE <<>>
      [] action.action = "pull" ->
            IF action.remoteFile # Null
            THEN <<"remote.getFileContent", "host.update">> ELSE <<>>
      [] OTHER -> <<>>

\* the calls of a conflict resolved by strategy `resolve` with merged content
resolveWrites == <<"resolve.remote.update", "resolve.host.update">>

Strategies == {"resolve", "ignore", "latest", "oldest", "always-pull", "always-push"}

\* the switch on resolutionStrategy: the action applied in place of the conflict
conflictDispatch(strategy, action) ==
    CASE strategy = "latest" ->
            IF action.hostFile.updatedAt < action.remoteFile.updatedAt
            THEN "pull" ELSE "push"
      [] strategy = "oldest" ->
            IF action.hostFile.updatedAt < action.remoteFile.updatedAt
            THEN "push" ELSE "pull"
      [] strategy = "always-pull" -> "pull"
      [] strategy = "always-push" -> "push"
      [] OTHER -> "conflict"

EmptyBuf == [host |-> "", remote |-> ""]

Call(store, op, path, previousUpdatedAt, newUpdatedAt, content, ok) ==
    [store |-> store, op |-> op, path |-> path,
     previousUpdatedAt |-> previousUpdatedAt, newUpdatedAt |-> newUpdatedAt,
     content |-> content, ok |-> ok, idx |-> idx, as |-> cur.action]

\* the first action at or after position i for which applySyncAction issues a call
RECURSIVE nextRunnable(_, _)
nextRunnable(acts, i) ==
    IF i > Len(acts) \/ applySyncAction(acts[i]) # <<>> THEN i
    ELSE nextRunnable(acts, i + 1)

\* the for-loop of sync() enters applySyncAction for acts[i]
Load(acts, i) ==
    LET j == nextRunnable(acts, i) IN
    /\ idx' = j
    /\ cur' = IF j <= Len(acts) THEN acts[j] ELSE Null
    /\ ops' = IF j <= Len(acts) THEN applySyncAction(acts[j]) ELSE <<>>
    /\ buf' = EmptyBuf

\* an awaited call returned: go on with `rest`, or with the next action
Continue(rest, nextCur, nextBuf) ==
    /\ pc' = pc
    /\ error' = error
    /\ IF rest # <<>>
       THEN idx' = idx /\ cur' = nextCur /\ ops' = rest /\ buf' = nextBuf
       ELSE Load(actions, idx + 1)

\* mutant of throw: the loop of sync() swallows the error of an action and goes on
throw_Swallowed(err) ==
    IF ops # <<>>
    THEN Continue(Tail(ops), cur, buf)
    ELSE /\ pc' = "failed"
         /\ error' = err
         /\ UNCHANGED <<idx, cur, ops, buf>>

\* an awaited call threw: nothing in sync() catches it
throw(err) ==
    /\ pc' = "failed"
    /\ error' = err
    /\ UNCHANGED <<idx, cur, ops, buf>>

Running(op) == pc = "apply" /\ ops # <<>> /\ Head(ops) = op

passVars == <<settings, last_synced_at, now, hostFiles, remoteFiles, actions, external>>

\* case 'prune': host.prune(hostFile.path)
HostPrune ==
    /\ Running("host.prune")
    /\ \E io \in BOOLEAN :
        LET path == cur.hostFile.path IN
        /\ calls' = Append(calls, Call("host", "prune", path, 0, 0, "", io))
        /\ hostHistory' = IF io THEN hostPrune(hostHistory, path) ELSE hostHistory
        /\ IF io THEN Continue(Tail(ops), cur, buf) ELSE throw("io")
    /\ UNCHANGED <<hostVault, remoteStore, passVars, classified>>

\* case 'remove': remote.remove(remoteFile.path, remoteFile.updatedAt, now)
RemoteRemove ==
    /\ Running("remote.remove")
    /\ \E io \in BOOLEAN :
        LET path == cur.remoteFile.path
            prev == cur.remoteFile.updatedAt
            ok == io /\ ~remoteStale(remoteStore, path, prev)
        IN  /\ calls' = Append(calls, Call("remote", "remove", path, prev, now, "", ok))
            /\ remoteStore' = IF ok THEN remoteRemove(remoteStore, path, now)
                              ELSE remoteStore
            /\ IF ok THEN Continue(Tail(ops), cur, buf)
               ELSE throw(IF io THEN "stale" ELSE "io")
    /\ UNCHANGED <<hostVault, hostHistory, passVars, classified>>

\* case 'remove': host.remove(hostFile.path, hostFile.updatedAt, now)
HostRemove ==
    /\ Running("host.remove")
    /\ \E io \in BOOLEAN :
        LET path == cur.hostFile.path
            prev == cur.hostFile.updatedAt
            ok == io /\ ~hostStale(hostVault, path, prev)
        IN  /\ calls' = Append(calls, Call("host", "remove", path, prev, now, "", ok))
            /\ hostVault' = IF ok THEN trash(hostVault, path) ELSE hostVault
            /\ hostHistory' = IF ok THEN recordDeletion(hostHistory, hostVault, path, now)
                              ELSE hostHistory
            /\ IF ok THEN Continue(Tail(ops), cur, buf)
               ELSE throw(IF io THEN "stale" ELSE "io")
    /\ UNCHANGED <<remoteStore, passVars, classified>>

\* handleConflict: host.getFileContent(hostFile.path)
ConflictReadHost ==
    /\ Running("conflict.host.getFileContent")
    /\ \E io \in BOOLEAN :
        LET path == cur.hostFile.path
            ok == io /\ hostVault[path].exists
            data == hostVault[path].content
        IN  /\ calls' = Append(calls, Call("host", "getFileContent", path, 0, 0,
                                           IF ok THEN data ELSE "", ok))
            /\ IF ok THEN Continue(Tail(ops), cur, [buf EXCEPT !.host = data])
               ELSE throw("io")
    /\ UNCHANGED <<storeVars, passVars, classified>>

\* mutant of ConflictReadRemote: the default branch of the switch on the strategy
\* breaks like `ignore` instead of throwing
ConflictReadRemote_DefaultIgnore ==
    /\ Running("conflict.remote.getFileContent")
    /\ \E io \in BOOLEAN :
        LET path == cur.remoteFile.path
            ok == io /\ remoteStore[path].state = "live"
            data == remoteStore[path].content
            resolutionStrategy == getResolutionStrategy(settings, cur.hostFile, cur.remoteFile)
            updatedData == resolve(cur.hostFile, cur.remoteFile, buf.host, data)
            updatedAction == conflictDispatch(resolutionStrategy, cur)
            redispatched == [cur EXCEPT !.action = updatedAction]
        IN  /\ calls' = Append(calls, Call("remote", "getFileContent", path, 0, 0,
                                           IF ok THEN data ELSE "", ok))
            /\ classified' = IF ok THEN resolutionStrategy ELSE classified
            /\ IF ~ok THEN throw("io")
               ELSE IF resolutionStrategy \notin Strategies THEN Continue(<<>>, cur, EmptyBuf)
               ELSE IF resolutionStrategy = "resolve"
                    THEN Continue(resolveWrites, cur, [host |-> updatedData, remote |-> updatedData])
               ELSE IF resolutionStrategy = "ignore"
                    THEN Continue(<<>>, cur, EmptyBuf)
               ELSE Continue(applySyncAction(redispatched), redispatched, EmptyBuf)
    /\ UNCHANGED <<storeVars, passVars>>

\* handleConflict: remote.getFileContent(remoteFile.path), then the strategy, the
\* merged content for `resolve`, and the switch of applySyncAction on the strategy
ConflictReadRemote ==
    /\ Running("conflict.remote.getFileContent")
    /\ \E io \in BOOLEAN :
        LET path == cur.remoteFile.path
            ok == io /\ remoteStore[path].state = "live"
            data == remoteStore[path].content
            resolutionStrategy == getResolutionStrategy(settings, cur.hostFile, cur.remoteFile)
            updatedData == resolve(cur.hostFile, cur.remoteFile, buf.host, data)
            updatedAction == conflictDispatch(resolutionStrategy, cur)
            redispatched == [cur EXCEPT !.action = updatedAction]
        IN  /\ calls' = Append(calls, Call("remote", "getFileContent", path, 0, 0,
                                           IF ok THEN data ELSE "", ok))
            /\ classified' = IF ok THEN resolutionStrategy ELSE classified
            /\ IF ~ok THEN throw("io")
               ELSE IF resolutionStrategy \notin Strategies THEN throw("invalid-strategy")
               ELSE IF resolutionStrategy = "resolve"
                    THEN Continue(resolveWrites, cur, [host |-> updatedData, remote |-> updatedData])
               ELSE IF resolutionStrategy = "ignore"
                    THEN Continue(<<>>, cur, EmptyBuf)
               ELSE Continue(applySyncAction(redispatched), redispatched, EmptyBuf)
    /\ UNCHANGED <<storeVars, passVars>>

\* strategy 'resolve': remote.update(remoteFile.path, updatedData, remoteFile.updatedAt, now)
ResolveRemoteUpdate ==
    /\ Running("resolve.remote.update")
    /\ \E io \in BOOLEAN :
        LET path == cur.remoteFile.path
            prev == cur.remoteFile.updatedAt
            ok == io /\ ~remoteStale(remoteStore, path, prev)
        IN  /\ calls' = Append(calls, Call("remote", "update", path, prev, now, buf.remote, ok))
            /\ remoteStore' = IF ok THEN remoteUpdate(remoteStore, path, buf.remote, now)
                              ELSE remoteStore
            /\ IF ok THEN Continue(Tail(ops), cur, buf)
               ELSE throw(IF io THEN "stale" ELSE "io")
    /\ UNCHANGED <<hostVault, hostHistory, passVars, classified>>

\* strategy 'resolve': host.update(hostFile.path, updatedData, hostFile.updatedAt, now)
ResolveHostUpdate ==
    /\ Running("resolve.host.update")
    /\ \E io \in BOOLEAN :
        LET path == cur.hostFile.path
            prev == cur.hostFile.updatedAt
            ok == io /\ ~hostStale(hostVault, path, prev)
        IN  /\ calls' = Append(calls, Call("host", "update", path, prev, now, buf.host, ok))
            /\ hostVault' = IF ok THEN hostUpdate(hostVault, path, buf.host, now)
                            ELSE hostVault
            /\ IF ok THEN Continue(Tail(ops), cur, buf)
               ELSE throw(IF io THEN "stale" ELSE "io")
    /\ UNCHANGED <<hostHistory, remoteStore, passVars, classified>>

\* case 'push': host.getFileContent(hostFile.path)
PushRead ==
    /\ Running("host.getFileContent")
    /\ \E io \in BOOLEAN :
        LET path == cur.hostFile.path
            ok == io /\ hostVault[path].exists
            data == hostVault[path].content
        IN  /\ calls' = Append(calls, Call("host", "getFileContent", path, 0, 0,
                                           IF ok THEN data ELSE "", ok))
            /\ IF ok THEN Continue(Tail(ops), cur, [buf EXCEPT !.host = data])
               ELSE throw("io")
    /\ UNCHANGED <<storeVars, passVars, classified>>

\* the timestamps case 'push' hands to remote.update
pushPrevious(action) ==
    IF action.remoteFile # Null THEN action.remoteFile.updatedAt
    ELSE action.hostFile.updatedAt
pushNew(action, at) == action.hostFile.updatedAt

\* case 'push': remote.update(hostFile.path, content, previous, new)
PushUpdate ==
    /\ Running("remote.update")
    /\ \E io \in BOOLEAN :
        LET path == cur.hostFile.path
            prev == pushPrevious(cur)
            new == pushNew(cur, now)
            ok == io /\ ~remoteStale(remoteStore, path, prev)
        IN  /\ calls' = Append(calls, Call("remote", "update", path, prev, new, buf.host, ok))
            /\ remoteStore' = IF ok THEN remoteUpdate(remoteStore, path, buf.host, new)
                              ELSE remoteStore
            /\ IF ok THEN Continue(Tail(ops), cur, buf)
               ELSE throw(IF io THEN "stale" ELSE "io")
    /\ UNCHANGED <<hostVault, hostHistory, passVars, classified>>

\* case 'pull': remote.getFileContent(remoteFile.path)
PullRead ==
    /\ Running("remote.getFileContent")
    /\ \E io \in BOOLEAN :
        LET path == cur.remoteFile.path
            ok == io /\ remoteStore[path].state = "live"
            data == remoteStore[path].content
        IN  /\ calls' = Append(calls, Call("remote", "getFileContent", path, 0, 0,
                                           IF ok THEN data ELSE "", ok))
            /\ IF ok THEN Continue(Tail(ops), cur, [buf EXCEPT !.remote = data])
               ELSE throw("io")
    /\ UNCHANGED <<storeVars, passVars, classified>>

\* mutant of pullPrevious: the token is the modification time the file has now
pullPrevious_Reread(action) ==
    LET mtime == getFileStats(hostVault, action.remoteFile.path).mtime IN
    IF mtime # 0 THEN mtime ELSE action.remoteFile.updatedAt

\* the timestamps case 'pull' hands to host.update
pullPrevious(action) ==
    IF action.hostFile # Null THEN action.hostFile.updatedAt
    ELSE action.remoteFile.updatedAt
pullNew(action, at) == action.remoteFile.updatedAt

\* case 'pull': host.update(remoteFile.path, content, previous, new)
PullUpdate ==
    /\ Running("host.update")
    /\ \E io \in BOOLEAN :
        LET path == cur.remoteFile.path
            prev == pullPrevious(cur)
            new == pullNew(cur, now)
            ok == io /\ ~hostStale(hostVault, path, prev)
        IN  /\ calls' = Append(calls, Call("host", "update", path, prev, new, buf.remote, ok))
            /\ hostVault' = IF ok THEN hostUpdate(hostVault, path, buf.remote, new)
                            ELSE hostVault
            /\ IF ok THEN Continue(Tail(ops), cur, buf)
               ELSE throw(IF io THEN "stale" ELSE "io")
    /\ UNCHANGED <<hostHistory, remoteStore, passVars, classified>>

(***************************************************************************)
(* sync()                                                                  *)
(***************************************************************************)
\* filteredRemoteFiles: the remote snapshot without the excluded paths
filterRemoteFiles(rFiles, excludeGlobs) ==
    LET excludePatterns == splitExcludeGlobs(excludeGlobs)
        kept(file) == ~isFileExcluded(file.path, excludePatterns)
    IN  SelectSeq(rFiles, kept)

\* sync() up to host.getFiles(): the watermark and the clock are read
StartSync ==
    /\ pc \in {"idle", "done", "failed"}
    /\ last_synced_at' = settings.last_synced_at
    \* Date.now(): the clock does not run backwards between passes
    /\ \E t \in Stamps : t >= now /\ now' = t
    /\ hostFiles' = hostGetFiles(hostVault, hostHistory, settings)
    /\ remoteFiles' = <<>>
    /\ actions' = <<>>
    /\ idx' = 1
    /\ cur' = Null
    /\ ops' = <<>>
    /\ buf' = EmptyBuf
    /\ calls' = <<>>
    /\ error' = "none"
    /\ classified' = "none"
    /\ pc' = "fetch"
    /\ UNCHANGED <<storeVars, settings, external>>

\* remote.getFiles(), the exclusion filter and createSyncAction
FetchRemote ==
    /\ pc = "fetch"
    /\ \E io \in BOOLEAN :
        IF io
        THEN LET filteredRemoteFiles ==
                     filterRemoteFiles(remoteGetFiles(remoteStore), settings.exclude_globs)
                 planned == createSyncAction(hostFiles, filteredRemoteFiles, last_synced_at)
             IN  /\ remoteFiles' = filteredRemoteFiles
                 /\ actions' = planned
                 /\ Load(planned, 1)
                 /\ pc' = "apply"
                 /\ error' = error
        ELSE /\ throw("io")
             /\ UNCHANGED <<remoteFiles, actions>>
    /\ UNCHANGED <<storeVars, settings, last_synced_at, now, hostFiles, calls, classified,
                   external>>

\* mutant of FinishSync: the watermark is written whether or not the loop threw
FinishSync_Always ==
    /\ \/ pc = "apply" /\ ops = <<>> /\ idx > Len(actions)
       \/ pc = "failed"
    /\ settings' = [settings EXCEPT !.last_synced_at = now]
    /\ pc' = "done"
    /\ UNCHANGED <<storeVars, last_synced_at, now, hostFiles, remoteFiles, actions,
                   idx, cur, ops, buf, calls, error, classified, external>>

\* the loop is over: settings.updateSettings({ last_synced_at: now })
FinishSync ==
    /\ pc = "apply"
    /\ ops = <<>>
    /\ idx > Len(actions)
    /\ settings' = [settings EXCEPT !.last_synced_at = now]
    /\ pc' = "done"
    /\ UNCHANGED <<storeVars, last_synced_at, now, hostFiles, remoteFiles, actions,
                   idx, cur, ops, buf, calls, error, classified, external>>

(***************************************************************************)
(* Initial states of Spec: any store contents over the model's paths, any  *)
(* watermark, one of the settings profiles.                                *)
(***************************************************************************)
Profile(excludeGlobs, rules, fallback) ==
    [exclude_globs |-> excludeGlobs, resolution_strategies |-> rules,
     fallback_conflict_resolution_strategy |-> fallback]

\* the default strategy, and the exclusion of one of the model's paths
BaseProfiles ==
    {Profile("", <<>>, "latest"), Profile("*.tmp\n *.bin", <<>>, "latest")}

\* the other strategies, one of them reached through a rule, one of them unknown
StrategyProfiles ==
    {Profile("", <<>>, f) : f \in {"oldest", "always-pull", "always-push", "resolve", "newest"}}
    \cup {Profile("", <<[glob |-> "*.txt, *.bin", strategy |-> "ignore"]>>, "latest")}

Profiles == BaseProfiles \cup StrategyProfiles

InitialFiles ==
    {NoFile} \cup {[exists |-> TRUE, ctime |-> t, mtime |-> t, content |-> "h"] : t \in Stamps}

InitialRecords ==
    {NoRecord}
    \cup {[state |-> "live", createdAt |-> t, updatedAt |-> t, deletedAt |-> 0,
           content |-> "r"] : t \in Stamps}
    \cup {[state |-> "deleted", createdAt |-> t, updatedAt |-> t, deletedAt |-> t,
           content |-> ""] : t \in Stamps}

\* the timestamps a path starts with: the text file a.md starts with the first
\* timestamp on either side, b.bin with any
InitialStamps(path) == IF path = "b.bin" THEN Stamps ELSE {1}

startsAt(t, path) == t = 0 \/ t \in InitialStamps(path)

\* Spec: the configuration folder is empty and is not synchronised
InitialVaults ==
    {v \in {f @@ [p \in InternalPaths |-> NoFile] : f \in [Paths -> InitialFiles]} :
        \A p \in Paths : startsAt(v[p].mtime, p)}

InitialRemotes ==
    {r \in {f @@ [p \in InternalPaths |-> NoRecord] : f \in [Paths -> InitialRecords]} :
        \A p \in Paths : startsAt(r[p].updatedAt, p)}

Init ==
    /\ hostVault \in InitialVaults
    /\ hostHistory \in {f @@ [p \in InternalPaths |-> 0] : f \in [Paths -> 0..MaxStamp]}
    /\ \A p \in Paths : hostVault[p].exists => hostHistory[p] = 0
    /\ \A p \in Paths : startsAt(hostHistory[p], p)
    /\ remoteStore \in InitialRemotes
    /\ \E profile \in Profiles, w \in 0..MaxStamp :
          \* the strategy for b.bin is consulted only when b.bin is live on both sides
          /\ profile \in StrategyProfiles =>
                hostVault["b.bin"].exists /\ remoteStore["b.bin"].state = "live"
          /\ settings = [last_synced_at |-> w, sync_internal_files |-> FALSE] @@ profile
    /\ last_synced_at = 0
    \* the clock reading of the pass that wrote the watermark
    /\ now = settings.last_synced_at
    /\ hostFiles = <<>>
    /\ remoteFiles = <<>>
    /\ actions = <<>>
    /\ idx = 1
    /\ cur = Null
    /\ ops = <<>>
    /\ buf = EmptyBuf
    /\ calls = <<>>
    /\ pc = "idle"
    /\ error = "none"
    /\ classified = "none"
    /\ external = 0

Next ==
    \/ StartSync
    \/ FetchRemote
    \/ HostPrune
    \/ RemoteRemove
    \/ HostRemove
    \/ ConflictReadHost
    \/ ConflictReadRemote
    \/ ResolveRemoteUpdate
    \/ ResolveHostUpdate
    \/ PushRead
    \/ PushUpdate
    \/ PullRead
    \/ PullUpdate
    \/ FinishSync

Spec == Init /\ [][Next]_vars

(***************************************************************************)
(* SpecExt: sync passes interleaved with another writer of the host's      *)
(* files (the user, another program), with the configuration folder in     *)
(* use and sync_internal_files on or off.                                  *)
(***************************************************************************)
\* the paths the other writer and the initial stores of SpecExt use
ExtPaths == {"b.bin"} \cup InternalPaths

\* the stores or the deletion history hold something for the path
inUse(path) ==
    hostVault[path].exists \/ hostHistory[path] # 0 \/ remoteStore[path].state # "none"

\* SpecExt follows one file at a time: no other path is in use
alone(path) == \A other \in AllPaths \ {path} : ~inUse(other)

\* another writer creates or rewrites a file, before the first pass or between two
\* store calls of a pass; its modification time changes
ExternalWrite ==
    \E path \in ExtPaths, t \in Stamps :
        /\ alone(path)
        /\ pc \in {"idle", "apply"}
        /\ external < MaxExternal
        /\ external' = external + 1
        \* the clock does not run backwards
        /\ t >= now
        /\ ~hostVault[path].exists \/ hostVault[path].mtime # t
        /\ hostVault' = writeFile(hostVault, path, "x", t,
                                  IF hostVault[path].exists THEN hostVault[path].ctime ELSE t)
        /\ UNCHANGED <<hostHistory, remoteStore, settings, last_synced_at, now, hostFiles,
                       remoteFiles, actions, idx, cur, ops, buf, calls, pc, error,
                       classified>>

\* another writer deletes a file; the history records the deletion
ExternalDelete ==
    \E path \in ExtPaths, t \in Stamps :
        /\ alone(path)
        /\ pc \in {"idle", "apply"}
        /\ external < MaxExternal
        /\ external' = external + 1
        /\ t >= now
        /\ hostVault[path].exists
        /\ hostVault' = trash(hostVault, path)
        /\ hostHistory' = recordDeletion(hostHistory, hostVault, path, t)
        /\ UNCHANGED <<remoteStore, settings, last_synced_at, now, hostFiles,
                       remoteFiles, actions, idx, cur, ops, buf, calls, pc, error,
                       classified>>

InitExt ==
    /\ hostVault \in {f @@ [p \in AllPaths \ ExtPaths |-> NoFile] : f \in [ExtPaths -> InitialFiles]}
    /\ hostHistory = [p \in AllPaths |-> 0]
    /\ remoteStore \in {f @@ [p \in AllPaths \ ExtPaths |-> NoRecord] :
                            f \in [ExtPaths -> InitialRecords]}
    /\ \E path \in ExtPaths : alone(path)
    /\ \E internal \in BOOLEAN :
          \* with sync_internal_files off the configuration folder starts empty
          /\ ~internal => \A p \in InternalPaths :
                              ~hostVault[p].exists /\ remoteStore[p].state = "none"
          /\ settings = [last_synced_at |-> 0, sync_internal_files |-> internal]
                        @@ Profile("", <<>>, "latest")
    /\ last_synced_at = 0
    /\ now = 0
    /\ hostFiles = <<>>
    /\ remoteFiles = <<>>
    /\ actions = <<>>
    /\ idx = 1
    /\ cur = Null
    /\ ops = <<>>
    /\ buf = EmptyBuf
    /\ calls = <<>>
    /\ pc = "idle"
    /\ error = "none"
    /\ classified = "none"
    /\ external = 0

\* the first pass
FirstSync == pc = "idle" /\ StartSync

\* one pass is followed, from its start to its end
NextExt ==
    \/ FirstSync
    \/ FetchRemote
    \/ HostPrune
    \/ RemoteRemove
    \/ HostRemove
    \/ ConflictReadHost
    \/ ConflictReadRemote
    \/ ResolveRemoteUpdate
    \/ ResolveHostUpdate
    \/ PushRead
    \/ PushUpdate
    \/ PullRead
    \/ PullUpdate
    \/ FinishSync
    \/ ExternalWrite
    \/ ExternalDelete

SpecExt == InitExt /\ [][NextExt]_vars

(***************************************************************************)
(* SpecPlan: createSyncAction applied to any pair of snapshots with at     *)
(* most one record per path, and any watermark.                            *)
(***************************************************************************)
LiveRecords(path) ==
    {FileMetadata(path, c, u, u, FALSE) : c \in CreatedTimes, u \in Times}

Tombstones(path) ==
    {FileMetadata(path, d, d, d, TRUE) : d \in Times}

\* the snapshot listing the records of f in the order of PathSeq
RECURSIVE snapshotFrom(_, _)
snapshotFrom(f, i) ==
    IF i > Len(PathSeq) THEN <<>>
    ELSE (IF f[PathSeq[i]] # Null THEN <<f[PathSeq[i]]>> ELSE <<>>)
         \o snapshotFrom(f, i + 1)

Snapshots ==
    {snapshotFrom(f, 1) :
        f \in {g \in [Paths -> {Null} \cup UNION {LiveRecords(p) \cup Tombstones(p) : p \in Paths}] :
                 \A p \in Paths : g[p] # Null => g[p].path = p}}

InitPlan ==
    /\ hostFiles \in Snapshots
    /\ remoteFiles \in Snapshots
    /\ last_synced_at \in Watermarks
    /\ hostVault = [p \in AllPaths |-> NoFile]
    /\ hostHistory = [p \in AllPaths |-> 0]
    /\ remoteStore = [p \in AllPaths |-> NoRecord]
    /\ settings = [last_synced_at |-> last_synced_at, sync_internal_files |-> FALSE]
                  @@ Profile("", <<>>, "latest")
    /\ now = 0
    /\ actions = <<>>
    /\ idx = 1
    /\ cur = Null
    /\ ops = <<>>
    /\ buf = EmptyBuf
    /\ calls = <<>>
    /\ pc = "plan"
    /\ error = "none"
    /\ classified = "none"
    /\ external = 0

\* const actions = await this.createSyncAction(hostFiles, filteredRemoteFiles)
Plan ==
    /\ pc = "plan"
    /\ actions' = createSyncAction(hostFiles, remoteFiles, last_synced_at)
    /\ pc' = "planned"
    /\ UNCHANGED <<storeVars, settings, last_synced_at, now, hostFiles, remoteFiles,
                   idx, cur, ops, buf, calls, error, classified, external>>

NextPlan == Plan

SpecPlan == InitPlan /\ [][NextPlan]_vars

(***************************************************************************)
(* SpecResolve: getResolutionStrategy applied to a conflict on any of a    *)
(* few paths, under any list of at most two rules and any fallback.        *)
(***************************************************************************)
ResolvePaths == {"a.md", "b.bin", "env", "d/e.bin", "notes.txt.bak"}

Rules ==
    {[glob |-> "*.txt, *.bin", strategy |-> "ignore"],
     [glob |-> "b.*", strategy |-> "always-pull"],
     [glob |-> " env ,d/*", strategy |-> "oldest"],
     [glob |-> "*.md", strategy |-> "always-push"],
     [glob |-> "**", strategy |-> "latest"]}

RuleLists == UNION {[1..n -> Rules] : n \in 0..MaxRules}

InitResolve ==
    /\ \E rules \in RuleLists, fallback \in Strategies :
          settings = [last_synced_at |-> 0, sync_internal_files |-> FALSE]
                     @@ Profile("", rules, fallback)
    /\ \E path \in ResolvePaths :
          cur = createAction(FileMetadata(path, 1, 2, 2, FALSE),
                             FileMetadata(path, 1, 2, 2, FALSE), "conflict")
    /\ hostVault = [p \in AllPaths |-> NoFile]
    /\ hostHistory = [p \in AllPaths |-> 0]
    /\ remoteStore = [p \in AllPaths |-> NoRecord]
    /\ last_synced_at = 0
    /\ now = 0
    /\ hostFiles = <<>>
    /\ remoteFiles = <<>>
    /\ actions = <<>>
    /\ idx = 1
    /\ ops = <<>>
    /\ buf = EmptyBuf
    /\ calls = <<>>
    /\ pc = "classify"
    /\ error = "none"
    /\ classified = "none"
    /\ external = 0

\* const resolutionStrategy = this.conflictResolver.getResolutionStrategy(hostFile, remoteFile)
Classify ==
    /\ pc = "classify"
    /\ classified' = getResolutionStrategy(settings, cur.hostFile, cur.remoteFile)
    /\ pc' = "classified"
    /\ UNCHANGED <<storeVars, settings, last_synced_at, now, hostFiles, remoteFiles,
                   actions, idx, cur, ops, buf, calls, error, external>>

NextResolve == Classify

SpecResolve == InitResolve /\ [][NextResolve]_vars

(***************************************************************************)
(* Properties of createSyncAction (checked under SpecPlan)                 *)
(***************************************************************************)
Planned == pc = "planned"

hostAt(path) == getFile(hostFiles, path)
remoteAt(path) == getFile(remoteFiles, path)

isLive(file) == file # Null /\ ~file.deleted
isTombstone(file) == file # Null /\ file.deleted

actionPath(action) ==
    IF action.hostFile # Null THEN action.hostFile.path ELSE action.remoteFile.path

\* the positions of the planned actions for a path
actionsAt(path) == {i \in 1..Len(actions) : actionPath(actions[i]) = path}

\* the kind of the action planned for a path, "none" if there is none
kindAt(path) ==
    IF actionsAt(path) = {} THEN "none"
    ELSE actions[CHOOSE i \in actionsAt(path) : \A j \in actionsAt(path) : i <= j].action

\* the action a map holds for a path, Null if it holds none
entryOf(objMap, path) ==
    IF has(objMap, path)
    THEN objMap[CHOOSE i \in 1..Len(objMap) : objMap[i].key = path].value
    ELSE Null

kindOf(objMap, path) ==
    IF has(objMap, path) THEN entryOf(objMap, path).action ELSE "none"

pass1 == planPass1(hostFiles, remoteFiles)
pass2 == planPass2(hostFiles, remoteFiles)
pass3 == planPass3(hostFiles, remoteFiles, last_synced_at)
pass4 == planPass4(hostFiles, remoteFiles, last_synced_at)

\* C1: a path whose remote record is a tombstone and which has no host record at
\* all gets no action, whatever the watermark and the other paths.
C1_LoneRemoteTombstoneUntouched ==
    Planned =>
        \A p \in Paths :
            isTombstone(remoteAt(p)) /\ hostAt(p) = Null => actionsAt(p) = {}

\* C1 witness: a lone remote tombstone next to a path that does get an action.
C1_Witness ==
    /\ Planned
    /\ \E p \in Paths : isTombstone(remoteAt(p)) /\ hostAt(p) = Null
    /\ actions # <<>>

\* C2 (as claimed): a path live on both sides with the same updatedAt gets no
\* action, for every watermark.
C2_IdenticalFilesNoAction ==
    Planned =>
        \A p \in Paths :
            /\ isLive(hostAt(p))
            /\ isLive(remoteAt(p))
            /\ hostAt(p).updatedAt = remoteAt(p).updatedAt
            => actionsAt(p) = {}

\* the decision of pass 3 for a live host record and its remote record
pass3Expected(hostFile, remoteFile, watermark) ==
    IF remoteFile = Null \/ remoteFile.updatedAt < hostFile.updatedAt THEN "push"
    ELSE IF remoteFile.updatedAt > watermark THEN "conflict"
    ELSE "none"

\* C7: for a live host record whose path the tombstone passes left unassigned,
\* pass 3 adds push if the remote has no record or is older than the host, else
\* conflict if the remote is newer than the watermark, else nothing; what pass 3
\* adds is the planned action for the path.
C7_Pass3Decision ==
    Planned =>
        LET m2 == pass2
            m3 == pass3
        IN  \A p \in Paths :
                isLive(hostAt(p)) /\ ~has(m2, p) =>
                    LET expected == pass3Expected(hostAt(p), remoteAt(p), last_synced_at) IN
                    /\ kindOf(m3, p) = expected
                    /\ expected # "none" =>
                          /\ kindAt(p) = expected
                          /\ entryOf(m3, p).hostFile = hostAt(p)
                          /\ entryOf(m3, p).remoteFile = remoteAt(p)

\* C7 witness: two examples of the claim, scaled to the model's clock (host 2 /
\* remote 3 / watermark 1: conflict; a host file with no remote record: push).
C7_Witness ==
    /\ Planned
    /\ last_synced_at = 1
    /\ \E p, q \in Paths :
        /\ p # q
        /\ isLive(hostAt(p)) /\ isLive(remoteAt(p))
        /\ hostAt(p).updatedAt = 2 /\ remoteAt(p).updatedAt = 3
        /\ kindAt(p) = "conflict"
        /\ isLive(hostAt(q)) /\ remoteAt(q) = Null
        /\ kindAt(q) = "push"

\* the decision of pass 4 for a live remote record and its host record
pass4Expected(hostFile, remoteFile, watermark) ==
    IF hostFile = Null \/ hostFile.updatedAt < remoteFile.updatedAt THEN "pull"
    ELSE IF hostFile.updatedAt > watermark THEN "conflict"
    ELSE "none"

\* C8: for a live remote record whose path passes 1-3 left unassigned, the action
\* is pull if the host has no record or is older, else conflict if the host is
\* newer than the watermark, else none; a live remote file with no host record is
\* planned as pull with hostFile = null.
C8_Pass4Decision ==
    Planned =>
        LET m3 == pass3
            m4 == pass4
        IN  \A p \in Paths :
                isLive(remoteAt(p)) /\ ~has(m3, p) =>
                    LET expected == pass4Expected(hostAt(p), remoteAt(p), last_synced_at) IN
                    /\ kindAt(p) = expected
                    /\ expected # "none" =>
                          /\ entryOf(m4, p).hostFile = hostAt(p)
                          /\ entryOf(m4, p).remoteFile = remoteAt(p)
                    /\ hostAt(p) = Null =>
                          \E i \in 1..Len(actions) :
                              /\ actions[i].action = "pull"
                              /\ actions[i].hostFile = Null
                              /\ actions[i].remoteFile = remoteAt(p)

\* C8 witness: a live remote file without host record next to one the host holds
\* an older copy of.
C8_Witness ==
    /\ Planned
    /\ \E p, q \in Paths :
        /\ p # q
        /\ isLive(remoteAt(p)) /\ hostAt(p) = Null /\ kindAt(p) = "pull"
        /\ isLive(remoteAt(q)) /\ isLive(hostAt(q))
        /\ hostAt(q).updatedAt < remoteAt(q).updatedAt
        /\ remoteAt(q).updatedAt <= last_synced_at
        /\ kindAt(q) = "pull"

\* the decision of pass 1 for a remote tombstone and the host record at its path
pass1Expected(hostFile, remoteDeletedFile) ==
    IF hostFile.deleted THEN "prune"
    ELSE IF hostFile.createdAt < remoteDeletedFile.deletedAt THEN "remove"
    ELSE "push"

\* C9: for a remote tombstone whose path has a host record the planned action is
\* prune if the host record is a tombstone, remove if it is live and created
\* before the remote deletion, push otherwise; no later pass replaces it.
C9_Pass1Decision ==
    Planned =>
        LET m1 == pass1
            m4 == pass4
        IN  \A p \in Paths :
                isTombstone(remoteAt(p)) /\ hostAt(p) # Null =>
                    /\ kindOf(m1, p) = pass1Expected(hostAt(p), remoteAt(p))
                    /\ kindAt(p) = pass1Expected(hostAt(p), remoteAt(p))
                    /\ Cardinality(actionsAt(p)) = 1
                    /\ entryOf(m4, p) = createAction(hostAt(p), remoteAt(p), kindAt(p))

\* C9 witness: a live host file created before the remote deletion is removed, one
\* created at the time of the deletion is pushed.
C9_Witness ==
    /\ Planned
    /\ \E p, q \in Paths :
        /\ p # q
        /\ isTombstone(remoteAt(p)) /\ isLive(hostAt(p))
        /\ hostAt(p).createdAt < remoteAt(p).deletedAt
        /\ hostAt(p).updatedAt > remoteAt(p).updatedAt
        /\ kindAt(p) = "remove"
        /\ isTombstone(remoteAt(q)) /\ isLive(hostAt(q))
        /\ hostAt(q).createdAt = remoteAt(q).deletedAt
        /\ kindAt(q) = "push"

\* the decision of pass 2 for a host tombstone and the remote record at its path
pass2Expected(hostDeletedFile, remoteFile) ==
    IF remoteFile = Null THEN "prune"
    ELSE IF remoteFile.deleted THEN "none"
    ELSE IF remoteFile.createdAt < hostDeletedFile.deletedAt THEN "remove"
    ELSE "pull"

\* C10: for a host tombstone pass 2 adds prune with remoteFile = null if the remote
\* has no record, nothing if the remote record is a tombstone, remove if the
\* remote record is live and created before the host deletion, pull otherwise; a
\* host tombstone against a live remote record ends as remove or pull.
C10_Pass2Decision ==
    Planned =>
        LET m1 == pass1
            m2 == pass2
            m4 == pass4
        IN  \A p \in Paths :
                isTombstone(hostAt(p)) =>
                    LET expected == pass2Expected(hostAt(p), remoteAt(p)) IN
                    /\ (expected = "none") <=> ~(has(m2, p) /\ ~has(m1, p))
                    /\ expected # "none" =>
                          /\ ~has(m1, p)
                          /\ kindOf(m2, p) = expected
                          /\ kindAt(p) = expected
                          /\ entryOf(m4, p) =
                                createAction(hostAt(p), remoteAt(p), expected)
                    /\ isLive(remoteAt(p)) => kindAt(p) \in {"remove", "pull"}

\* C10 witness: scenario B scaled to the model's clock (host tombstone deleted at
\* 2, remote live created at 1: remove) next to a host tombstone whose remote copy
\* was created after the deletion: pull.
C10_Witness ==
    /\ Planned
    /\ \E p, q \in Paths :
        /\ p # q
        /\ isTombstone(hostAt(p)) /\ isLive(remoteAt(p))
        /\ hostAt(p).deletedAt = 2 /\ remoteAt(p).createdAt = 1
        /\ kindAt(p) = "remove"
        /\ isTombstone(hostAt(q)) /\ isLive(remoteAt(q))
        /\ remoteAt(q).createdAt >= hostAt(q).deletedAt
        /\ kindAt(q) = "pull"

\* what each pass adds when it starts from an empty map: the actions it proposes
propose1 == remoteDeletions(<<>>, hostFiles, SelectSeq(remoteFiles, isDeleted), 1)
propose2 == hostDeletions(<<>>, remoteFiles, SelectSeq(hostFiles, isDeleted), 1)
propose3 == hostModifications(<<>>, remoteFiles, SelectSeq(hostFiles, isModified),
                              last_synced_at, 1)
propose4 == remoteModifications(<<>>, hostFiles, SelectSeq(remoteFiles, isModified),
                                last_synced_at, 1)

\* the action of the earliest pass that proposes one for a path, Null if none does
earliestProposal(path) ==
    IF has(propose1, path) THEN entryOf(propose1, path)
    ELSE IF has(propose2, path) THEN entryOf(propose2, path)
    ELSE IF has(propose3, path) THEN entryOf(propose3, path)
    ELSE entryOf(propose4, path)

isPrefix(s, t) == Len(s) <= Len(t) /\ \A i \in 1..Len(s) : s[i] = t[i]

\* C18: the planned list holds at most one action per path, the action of a path is
\* the one of the earliest pass (remote tombstones, host tombstones, host live,
\* remote live) that proposes one for it, and each pass leaves the entries of the
\* passes before it as they are.
C18_FirstWriterWins ==
    Planned =>
        LET m1 == pass1
            m2 == pass2
            m3 == pass3
            m4 == pass4
        IN  /\ isPrefix(m1, m2) /\ isPrefix(m2, m3) /\ isPrefix(m3, m4)
            /\ actions = [i \in 1..Len(m4) |-> m4[i].value]
            /\ \A p \in Paths :
                  /\ Cardinality(actionsAt(p)) <= 1
                  /\ Cardinality({i \in 1..Len(m4) : m4[i].key = p}) <= 1
                  /\ entryOf(m4, p) = earliestProposal(p)

\* C18 witness: pass 1 plans remove for a path for which pass 3 proposes another
\* action; the plan keeps the remove.
C18_Witness ==
    /\ Planned
    /\ \E p \in Paths :
        /\ kindOf(propose1, p) = "remove"
        /\ kindOf(propose3, p) \in {"push", "conflict"}
        /\ kindAt(p) = "remove"
        /\ Cardinality(actionsAt(p)) = 1

\* C19 (as claimed): a conflict is planned only for a path both copies of which
\* were updated after the watermark; a host copy not updated since the watermark
\* is never planned as conflict.
C19_ConflictOnlyIfBothChanged ==
    Planned =>
        \A i \in 1..Len(actions) :
            actions[i].action = "conflict" =>
                /\ actions[i].hostFile.updatedAt > last_synced_at
                /\ actions[i].remoteFile.updatedAt > last_synced_at

(***************************************************************************)
(* Properties of getResolutionStrategy (checked under SpecResolve)         *)
(***************************************************************************)
endsWith(chars, suffix) ==
    /\ Len(suffix) <= Len(chars)
    /\ SubSeq(chars, Len(chars) - Len(suffix) + 1, Len(chars)) = suffix

\* the path is one of the allow-listed extensions, or ends with a dot and one
hasTextExtension(path) ==
    \E ext \in TextExtensions :
        Chars(path) = ext \/ endsWith(Chars(path), <<".">> \o ext)

\* the patterns of the rules: <<i, j>> is the j-th comma-separated pattern of rule i
patternsOf(rules) ==
    UNION {{<<i, j>> : j \in 1..Len(split(Chars(rules[i].glob), ","))} : i \in 1..Len(rules)}

patternAt(rules, ij) == trim(split(Chars(rules[ij[1]].glob), ",")[ij[2]])

before(ij, kl) == ij[1] < kl[1] \/ (ij[1] = kl[1] /\ ij[2] <= kl[2])

\* the strategy the claim gives a conflict on a path
expectedStrategy(cfg, path) ==
    LET rules == cfg.resolution_strategies
        matching == {ij \in patternsOf(rules) :
                        minimatch(Chars(path), patternAt(rules, ij), FALSE)}
        first == CHOOSE ij \in matching : \A kl \in matching : before(ij, kl)
    IN  IF hasTextExtension(path) THEN "resolve"
        ELSE IF matching = {} THEN cfg.fallback_conflict_resolution_strategy
        ELSE rules[first[1]].strategy

replanned ==
    createSyncAction(hostGetFiles(hostVault, hostHistory, settings),
                     filterRemoteFiles(remoteGetFiles(remoteStore), settings.exclude_globs),
                     settings.last_synced_at)

\* no timestamp of the snapshots of the pass lies ahead of the pass's now
clockNotBehind ==
    /\ \A i \in 1..Len(hostFiles) :
          hostFiles[i].updatedAt <= now /\ hostFiles[i].createdAt <= now
    /\ \A i \in 1..Len(remoteFiles) :
          remoteFiles[i].updatedAt <= now /\ remoteFiles[i].createdAt <= now

\* C3 (as claimed): once every action of a pass has been applied and the watermark
\* advanced to the pass's now, createSyncAction on the resulting stores yields no
\* action.  The claim is stated here for the passes whose clock is not behind any
\* timestamp they read, the case most favourable to it.
C3_PassIdempotent ==
    pc = "done" /\ clockNotBehind => replanned = <<>>

\* the calls that delete or overwrite a file
isMutation(call) == call.op \in {"remove", "update"}

\* the calls applySyncAction issued for a remove action, or for a conflict it
\* resolved itself by writing merged content
ofBothStores(call) ==
    call.as = "remove" \/ (call.as = "conflict" /\ call.op = "update")

\* C4: in a remove action and in a conflict resolved by `resolve`, the call to the
\* remote store has been issued and has succeeded before the call to the host
\* store is issued: no state holds a host remove/update of such an action without
\* an earlier successful remote call of the same action, path and operation.
C4_RemoteBeforeHost ==
    \A i \in 1..Len(calls) :
        calls[i].store = "host" /\ isMutation(calls[i]) /\ ofBothStores(calls[i]) =>
            \E j \in 1..(i - 1) :
                /\ calls[j].store = "remote"
                /\ calls[j].op = calls[i].op
                /\ calls[j].idx = calls[i].idx
                /\ calls[j].path = calls[i].path
                /\ calls[j].ok
                /\ \A k \in (j + 1)..(i - 1) : calls[k].idx # calls[i].idx

\* C4 witness: a pass that removed one path and wrote the merged content of
\* another on the host.
C4_Witness ==
    \E i, j \in 1..Len(calls) :
        /\ calls[i].store = "host" /\ calls[i].op = "remove" /\ calls[i].ok
        /\ calls[i].as = "remove"
        /\ calls[j].store = "host" /\ calls[j].op = "update" /\ calls[j].ok
        /\ calls[j].as = "conflict"

\* the planned actions for which applySyncAction issues at least one call
runnable == {i \in 1..Len(actions) : applySyncAction(actions[i]) # <<>>}

\* C5: while a pass runs, and after it threw, the persisted watermark is the one
\* read at its start; it is written only by a pass every action of which has been
\* applied without error, and then to the now captured at the start of the pass.
C5_WatermarkAdvancesOnlyOnSuccess ==
    /\ pc \in {"fetch", "apply", "failed"} => settings.last_synced_at = last_synced_at
    /\ pc = "failed" => error # "none"
    /\ pc = "done" =>
          /\ settings.last_synced_at = now
          /\ error = "none"
          /\ \A i \in 1..Len(calls) : calls[i].ok
          /\ \A k \in runnable : \E i \in 1..Len(calls) : calls[i].idx = k

\* C5 witness: a pass of two actions completed and moved the watermark.
C5_Witness ==
    /\ pc = "done"
    /\ Len(actions) = 2
    /\ settings.last_synced_at # last_synced_at

\* the last successful call of a kind on a path, 0 if there is none
lastOk(store, path, opKinds) ==
    LET hits == {i \in 1..Len(calls) :
                    /\ calls[i].store = store
                    /\ calls[i].path = path
                    /\ calls[i].op \in opKinds
                    /\ calls[i].ok}
    IN  IF hits = {} THEN 0 ELSE CHOOSE i \in hits : \A j \in hits : j <= i

\* what the successful calls of the pass did to the stores is in place
effectsInPlace ==
    \A p \in Paths :
        /\ LET i == lastOk("host", p, {"remove", "update"}) IN
           i # 0 =>
              IF calls[i].op = "remove" THEN ~hostVault[p].exists
              ELSE /\ hostVault[p].exists
                   /\ hostVault[p].content = calls[i].content
                   /\ hostVault[p].mtime = calls[i].newUpdatedAt
        /\ LET i == lastOk("remote", p, {"remove", "update"}) IN
           i # 0 =>
              IF calls[i].op = "remove" THEN remoteStore[p].state = "deleted"
              ELSE /\ remoteStore[p].state = "live"
                   /\ remoteStore[p].content = calls[i].content
                   /\ remoteStore[p].updatedAt = calls[i].newUpdatedAt
        /\ lastOk("host", p, {"prune"}) # 0 => hostHistory[p] = 0

\* C6: a call that failed is the last call of its pass (no later action is
\* attempted, nothing is retried), the pass has ended with the error, and what the
\* earlier calls of the pass did to the stores stays in place.
C6_FailureAbortsPass ==
    /\ \A i \in 1..Len(calls) :
          ~calls[i].ok => i = Len(calls) /\ pc = "failed" /\ error # "none"
    /\ (pc = "failed") <=> (error # "none")
    /\ pc = "failed" => \A i \in 1..Len(calls) : calls[i].idx <= idx
    /\ effectsInPlace

\* C6 witness: the second action of a pass failed after the first one had changed
\* a store.
C6_Witness ==
    /\ pc = "failed"
    /\ idx = 2
    /\ \E i \in 1..Len(calls) : calls[i].idx = 1 /\ isMutation(calls[i]) /\ calls[i].ok
    /\ ~calls[Len(calls)].ok

\* the planned action a call was issued for
plannedOf(call) == actions[call.idx]

\* the strategy the resolver returns for a planned conflict
strategyOf(action) == getResolutionStrategy(settings, action.hostFile, action.remoteFile)

\* C11 (as claimed): every remote.update of a push and every host.update of a pull,
\* planned directly or reached from a conflict, carries the pass's now as its new
\* timestamp.
C11_PushPullStampedNow ==
    \A i \in 1..Len(calls) :
        calls[i].op = "update" /\ calls[i].as \in {"push", "pull"} =>
            calls[i].newUpdatedAt = now

\* the action the claim has a strategy apply in place of a conflict
claimedDispatch(strategy, action) ==
    CASE strategy = "latest" ->
            IF action.hostFile.updatedAt > action.remoteFile.updatedAt
            THEN "push" ELSE "pull"
      [] strategy = "oldest" ->
            IF action.hostFile.updatedAt < action.remoteFile.updatedAt
            THEN "push" ELSE "pull"
      [] strategy = "always-pull" -> "pull"
      [] strategy = "always-push" -> "push"
      [] OTHER -> "none"

\* C13 (as claimed): the writes issued for a planned conflict are those of the
\* action its strategy selects: latest pushes if the host copy is newer and pulls
\* otherwise (equal timestamps included), oldest pushes if the host copy is older
\* and pulls otherwise, always-pull pulls, always-push pushes, and ignore issues
\* no write or delete.
C13_StrategyDispatch ==
    \A i \in 1..Len(calls) :
        plannedOf(calls[i]).action = "conflict" /\ calls[i].op \in {"update", "remove", "prune"} =>
            LET strategy == strategyOf(plannedOf(calls[i])) IN
            /\ strategy # "ignore"
            /\ strategy \in {"latest", "oldest", "always-pull", "always-push"} =>
                  /\ calls[i].op = "update"
                  /\ calls[i].as = claimedDispatch(strategy, plannedOf(calls[i]))
                  /\ calls[i].store = IF calls[i].as = "push" THEN "remote" ELSE "host"

\* the planned conflicts whose strategy is none of the six the switch handles
unknownStrategyAt ==
    {k \in 1..Len(actions) :
        /\ actions[k].action = "conflict"
        /\ strategyOf(actions[k]) \notin Strategies}

\* C16: a conflict whose strategy is not one of resolve, ignore, latest, oldest,
\* always-pull, always-push ends the pass with an error once its two contents have
\* been read, and no update, remove or prune has been issued for its path in the
\* pass; the error is raised for such a conflict only.
C16_UnknownStrategyFails ==
    /\ error = "invalid-strategy" =>
          /\ pc = "failed"
          /\ idx \in unknownStrategyAt
          /\ calls # <<>> /\ calls[Len(calls)].idx = idx /\ calls[Len(calls)].ok
    /\ \A k \in unknownStrategyAt :
          /\ idx <= k
          /\ pc # "done"
          /\ \A i \in 1..Len(calls) :
                calls[i].path = actionPath(actions[k]) => calls[i].op = "getFileContent"
          /\ (\E i \in 1..Len(calls) :
                 /\ calls[i].idx = k /\ calls[i].store = "remote" /\ calls[i].ok)
             => error = "invalid-strategy"

\* C16 witness: the second action of a pass is a conflict with an unknown strategy;
\* the pass failed on it after the first action had been applied.
C16_Witness ==
    /\ error = "invalid-strategy"
    /\ idx = 2
    /\ \E i \in 1..Len(calls) : calls[i].idx = 1 /\ isMutation(calls[i]) /\ calls[i].ok
    /\ Cardinality({i \in 1..Len(calls) : calls[i].idx = 2}) = 2

\* C17: the only call of a prune action is host.prune on the path of the action;
\* no call of the engine is a prune on the remote store; a tombstone the remote
\* snapshot of the pass holds is still a record of the remote store.
C17_PruneHostOnly ==
    /\ \A k \in 1..Len(actions) :
          actions[k].action = "prune" =>
              applySyncAction(actions[k]) \in {<<>>, <<"host.prune">>}
    /\ \A i \in 1..Len(ops) : ops[i] # "remote.prune"
    /\ \A i \in 1..Len(calls) :
          /\ ~(calls[i].store = "remote" /\ calls[i].op = "prune")
          /\ plannedOf(calls[i]).action = "prune" \/ calls[i].op = "prune" =>
                /\ plannedOf(calls[i]).action = "prune"
                /\ calls[i].store = "host"
                /\ calls[i].op = "prune"
                /\ calls[i].path = actionPath(plannedOf(calls[i]))
    /\ \A i \in 1..Len(remoteFiles) :
          remoteFiles[i].deleted => remoteStore[remoteFiles[i].path].state # "none"

\* C17 witness: both stores hold a tombstone for a path; the pass pruned the host's
\* and completed, and the remote tombstone is still there.
C17_Witness ==
    /\ pc = "done"
    /\ \E i \in 1..Len(calls) :
        /\ calls[i].op = "prune" /\ calls[i].ok
        /\ isTombstone(plannedOf(calls[i]).remoteFile)
        /\ isTombstone(plannedOf(calls[i]).hostFile)
        /\ remoteStore[calls[i].path].state = "deleted"
        /\ hostHistory[calls[i].path] = 0

(***************************************************************************)
(* Properties of a pass next to another writer (checked under SpecExt)     *)
(***************************************************************************)
\* the record is null or one of the records of the snapshot
recordedIn(file, files) == file = Null \/ \E j \in 1..Len(files) : files[j] = file

\* C12: the token remote.update receives from a push is the updatedAt of the remote
\* record of the planned action, or of its host record when it has no remote
\* record; the token host.update receives from a pull is the updatedAt of the host
\* record of the planned action, or of its remote record when it has no host
\* record; the records are those of the snapshots of the pass, whether the push or
\* pull was planned or reached from a conflict, and whatever has happened to the
\* file since the snapshot.
C12_TokensFromSnapshot ==
    \A i \in 1..Len(calls) :
        calls[i].op = "update" /\ calls[i].as \in {"push", "pull"} =>
            LET action == plannedOf(calls[i]) IN
            /\ action.action \in {calls[i].as, "conflict"}
            /\ recordedIn(action.hostFile, hostFiles)
            /\ recordedIn(action.remoteFile, remoteFiles)
            /\ calls[i].as = "push" =>
                  /\ calls[i].store = "remote"
                  /\ calls[i].previousUpdatedAt =
                        IF action.remoteFile # Null THEN action.remoteFile.updatedAt
                        ELSE action.hostFile.updatedAt
            /\ calls[i].as = "pull" =>
                  /\ calls[i].store = "host"
                  /\ calls[i].previousUpdatedAt =
                        IF action.hostFile # Null THEN action.hostFile.updatedAt
                        ELSE action.remoteFile.updatedAt

\* C12 witness: a pull reached from a conflict called host.update after another
\* writer had changed the file the snapshot recorded.
C12_Witness ==
    /\ external > 0
    /\ \E i \in 1..Len(calls) :
        /\ calls[i].store = "host" /\ calls[i].op = "update" /\ calls[i].as = "pull"
        /\ plannedOf(calls[i]).action = "conflict"
        /\ hostVault[calls[i].path].exists
        /\ hostVault[calls[i].path].mtime # plannedOf(calls[i]).hostFile.updatedAt
        /\ ~calls[i].ok

\* the modification time of the file on disk, 0 if there is no file
diskMtime(path) == IF hostVault[path].exists THEN hostVault[path].mtime ELSE 0

\* C15 (as claimed): host.update and host.remove are rejected for staleness only if
\* the modification time of the file is non-zero and differs from the token, and
\* whenever it is they fail and leave the file as the other writer left it.
C15_HostStalenessCheck ==
    [][ (/\ Len(calls') = Len(calls) + 1
         /\ calls'[Len(calls')].store = "host"
         /\ calls'[Len(calls')].op \in {"update", "remove"})
        => LET call == calls'[Len(calls')]
               stale == diskMtime(call.path) # 0
                        /\ diskMtime(call.path) # call.previousUpdatedAt
           IN  /\ error' = "stale" => stale
               /\ stale => ~call.ok /\ hostVault' = hostVault /\ hostHistory' = hostHistory
      ]_vars

noDuplicatePath(files) ==
    \A i, j \in 1..Len(files) : files[i].path = files[j].path => i = j

\* C20 (as claimed): the snapshot host.getFiles() returns holds at most one record
\* per path, in every state of the files and of the deletion history.
C20_OneRecordPerPath ==
    /\ noDuplicatePath(hostFiles)
    /\ noDuplicatePath(hostGetFiles(hostVault, hostHistory, settings))

(***************************************************************************)
(* Properties the plan has without the spec saying so (checked under       *)
(* SpecPlan, whose snapshots hold at most one record per path)             *)
(***************************************************************************)
\* C21: every conflict the plan holds has host.updatedAt <= remote.updatedAt and is
\* the entry the loop over hostModifiedFiles (pass 3) added; where the loop over
\* remoteModifiedFiles (pass 4) proposes a conflict the path already has its entry;
\* and when the two timestamps differ, resolve takes the host content as the old
\* text.
C21_ConflictFromPass3 ==
    Planned =>
        /\ \A i \in 1..Len(actions) :
              actions[i].action = "conflict" =>
                  LET action == actions[i]
                      path == actionPath(action)
                  IN  /\ action.hostFile # Null /\ action.remoteFile # Null
                      /\ action.hostFile.updatedAt <= action.remoteFile.updatedAt
                      /\ ~has(pass2, path)
                      /\ entryOf(pass3, path) = action
                      /\ action.hostFile.updatedAt # action.remoteFile.updatedAt =>
                            resolve(action.hostFile, action.remoteFile, "h", "r")
                                = reconcile("h", "h", "r")
        /\ \A path \in Paths :
              kindOf(propose4, path) = "conflict" => has(pass3, path)

\* C21 witness: the plan holds a conflict whose host copy is strictly older, and a
\* conflict on a path for which pass 4 proposes a conflict too.
C21_Witness ==
    /\ Planned
    /\ \E p \in Paths :
          /\ kindAt(p) = "conflict"
          /\ hostAt(p).updatedAt < remoteAt(p).updatedAt
    /\ \E q \in Paths :
          /\ kindAt(q) = "conflict"
          /\ kindOf(propose4, q) = "conflict"

\* the records the branch of applySyncAction for the action reads
carriesRecords(action) ==
    CASE action.action = "push" -> isLive(action.hostFile)
      [] action.action = "pull" -> isLive(action.remoteFile)
      [] action.action = "conflict" -> isLive(action.hostFile) /\ isLive(action.remoteFile)
      [] action.action = "remove" ->
            /\ action.hostFile # Null /\ action.remoteFile # Null
            /\ action.hostFile.deleted # action.remoteFile.deleted
      [] action.action = "prune" -> isTombstone(action.hostFile)
      [] OTHER -> FALSE

\* the number of store calls the branch issues when none of its guards skips one
callsOf(kind) == IF kind = "prune" THEN 1 ELSE 2

\* C22: every planned action carries the records its branch of applySyncAction
\* needs (push a live host record, pull a live remote record, conflict both
\* records live, remove both records with exactly one a tombstone, prune a host
\* tombstone), so no guard of applySyncAction skips a call of the action.
C22_ActionsCarryRecords ==
    Planned =>
        \A i \in 1..Len(actions) :
            /\ carriesRecords(actions[i])
            /\ Len(applySyncAction(actions[i])) = callsOf(actions[i].action)

\* C22 witness: the plan holds a prune without remote record next to a remove or a
\* pull planned for a host tombstone.
C22_Witness ==
    /\ Planned
    /\ \E p, q \in Paths :
          /\ kindAt(p) = "prune" /\ remoteAt(p) = Null
          /\ kindAt(q) \in {"remove", "pull"} /\ isTombstone(hostAt(q))

====
